---------------------------- MODULE Spec2Model ----------------------------
(***************************************************************************)
(* Held-Karp solver of src/TSP.cpp (heldKarp, called once by main).        *)
(*                                                                         *)
(* Locations are 0-based inside the solver and 1-based at its boundary,    *)
(* as in the source.  Costs are doubles in the source; every cost of the   *)
(* model is an integer of magnitude below 2^31, which a double holds       *)
(* exactly, so the additions and comparisons of the source are exact       *)
(* integer operations here.  A sum that may exceed 2^31 - 1 is never       *)
(* formed as a value: the comparison it feeds is decided by PlusLess and   *)
(* PlusEq, which move the addend to the other side.                        *)
(***************************************************************************)
EXTENDS Integers, Sequences, FiniteSets, TLC

\* const int INF = numeric_limits<int>::max();
INF == 2147483647

\* Largest number of locations main is given.
MaxN == 3
\* Ordinary matrix entries are 0..MaxCost.
MaxCost == 1
\* A finite cost just below the sentinel.
Big == INF - 1
\* The entries main may read into the matrix: ordinary ones, a large finite
\* one, and a negative one.
CostValues == (0 .. MaxCost) \cup {Big, -1}

VARIABLES
    n,            \* graph.size()
    graph,        \* the distance matrix, graph[a][b], 0-based
    startNode,    \* 1-based start location
    pc,           \* position in heldKarp
    dp,           \* dp[subset][node]
    subset,       \* loop variable of line 32, then the local of line 61
    i, j,         \* loop variables of lines 33/38, i also of line 50
    minDistance, lastNode,
    path, currentNode,
    bestRoute,    \* main's vector, assigned at line 86
    reads         \* history: the dp cells line 42 has read
vars == <<n, graph, startNode, pc, dp, subset, i, j, minDistance, lastNode,
          path, currentNode, bestRoute, reads>>

---------------------------------------------------------------------------
(* Arithmetic helpers *)

RECURSIVE Pow2(_)
\* pow(2, n) and 1 << k
Pow2(k) == IF k <= 0 THEN 1 ELSE 2 * Pow2(k - 1)

\* subset & (1 << k)
InSubset(s, k) == (s \div Pow2(k)) % 2 = 1

\* subset ^ (1 << k)
Toggle(s, k) == IF InSubset(s, k) THEN s - Pow2(k) ELSE s + Pow2(k)

\* a + b < c, exact
PlusLess(a, b, c) ==
    IF a <= 0 \/ b <= 0 THEN a + b < c ELSE c > 0 /\ a < c - b

\* a + b == c, exact
PlusEq(a, b, c) ==
    IF a <= 0 \/ b <= 0 THEN a + b = c ELSE c > 0 /\ a = c - b

RECURSIVE Reverse(_)
\* std::reverse
Reverse(s) == IF s = <<>> THEN <<>> ELSE Append(Reverse(Tail(s)), Head(s))

---------------------------------------------------------------------------
(* The steps of heldKarp as operators on values *)

\* vector<vector<double>> dp(subsetCount, vector<double>(n, INF));
NewTable(nn) == [s \in 0 .. Pow2(nn) - 1 |-> [k \in 0 .. nn - 1 |-> INF]]

\* dp[1 << (startNode - 1)][startNode - 1] = 0; in bounds iff the start is a location
BaseInBounds(nn, st) == st - 1 \in 0 .. nn - 1

BaseCase(d, st) == [d EXCEPT ![Pow2(st - 1)][st - 1] = 0]

\* line 42 reading the row of subset itself: i not removed
ReadSubsetKeepingI(s, a) == s

\* the table row line 42 reads: subset ^ (1 << i)
ReadSubset(s, a) == Toggle(s, a)

\* line 42: dp[subset][i] = min(dp[subset][i], dp[subset ^ (1 << i)][j] + graph[j][i])
Relax(d, g, s, a, b) ==
    IF PlusLess(d[ReadSubset(s, a)][b], g[b][a], d[s][a])
    THEN [d EXCEPT ![s][a] = d[ReadSubset(s, a)][b] + g[b][a]]
    ELSE d

RECURSIVE Seek(_, _, _, _)
\* The loop headers and the two continue tests of lines 32-39: from the
\* position (s, a, b) of the inner loop, the next position at which line 42
\* runs, or a position with s = 2^n when the loops are over.
Seek(nn, s, a, b) ==
    IF s >= Pow2(nn) THEN <<s, 0, 0>>
    ELSE IF a >= nn THEN Seek(nn, s + 1, 0, 0)
    ELSE IF ~InSubset(s, a) THEN Seek(nn, s, a + 1, 0)
    ELSE IF b >= nn THEN Seek(nn, s, a + 1, 0)
    ELSE IF ~InSubset(s, b) \/ a = b THEN Seek(nn, s, a, b + 1)
    ELSE <<s, a, b>>

\* lines 51-56 skipping location 1 instead of the start
ClosingSkippingFirst(md, ln, d, g, nn, st, a) ==
    IF a = 0 THEN <<md, ln>>
    ELSE IF PlusLess(d[Pow2(nn) - 1][a], g[a][st - 1], md)
         THEN <<d[Pow2(nn) - 1][a] + g[a][st - 1], a>>
         ELSE <<md, ln>>

\* lines 51-56, one iteration of the closing loop: <<minDistance, lastNode>>
Closing(md, ln, d, g, nn, st, a) ==
    IF a = st - 1 THEN <<md, ln>>
    ELSE IF PlusLess(d[Pow2(nn) - 1][a], g[a][st - 1], md)
         THEN <<d[Pow2(nn) - 1][a] + g[a][st - 1], a>>
         ELSE <<md, ln>>

\* line 71-72: i is a predecessor of cur in subset s
IsPrev(d, g, s, cur, a) ==
    /\ a # cur
    /\ InSubset(s, a)
    /\ PlusEq(d[Toggle(s, cur)][a], g[a][cur], d[s][cur])

\* lines 70-77: the first i the for loop breaks at, or -1 when it ends without
FindPrev(d, g, nn, s, cur) ==
    LET c == {a \in 0 .. nn - 1 : IsPrev(d, g, s, cur, a)}
    IN  IF c = {} THEN -1 ELSE CHOOSE a \in c : \A b \in c : a <= b

---------------------------------------------------------------------------
(* heldKarp as a function of its arguments, composed of the same steps *)

RECURSIVE ForwardFrom(_, _, _, _)
\* lines 32-45 from position p on
ForwardFrom(d, g, nn, p) ==
    IF p[1] >= Pow2(nn) THEN d
    ELSE ForwardFrom(Relax(d, g, p[1], p[2], p[3]), g, nn,
                     Seek(nn, p[1], p[2], p[3] + 1))

RECURSIVE ClosingFrom(_, _, _, _, _, _)
\* lines 50-57 from iteration a on: <<minDistance, lastNode>>
ClosingFrom(r, d, g, nn, st, a) ==
    IF a >= nn THEN r
    ELSE ClosingFrom(Closing(r[1], r[2], d, g, nn, st, a), d, g, nn, st, a + 1)

RECURSIVE BacktrackFrom(_, _, _, _, _, _, _)
\* lines 67-86: the route, <<>> when the while loop never ends
BacktrackFrom(pth, d, g, nn, st, s, cur) ==
    IF cur = st - 1 THEN Reverse(Append(pth, st))
    ELSE IF FindPrev(d, g, nn, s, cur) = -1 THEN <<>>
    ELSE BacktrackFrom(Append(pth, cur + 1), d, g, nn, st, Toggle(s, cur),
                       FindPrev(d, g, nn, s, cur))

\* lines 23-89 for a start in range: how the call ends, the value returned
\* and the route left in bestRoute
HeldKarp(g, nn, st) ==
    LET d  == ForwardFrom(BaseCase(NewTable(nn), st), g, nn, Seek(nn, 0, 0, 0))
        r  == ClosingFrom(<<INF, -1>>, d, g, nn, st, 0)
        rt == BacktrackFrom(<<st>>, d, g, nn, st, Pow2(nn) - 1, r[2])
    IN  IF r[2] = -1 THEN [pc |-> "undefined", minDistance |-> r[1], bestRoute |-> <<>>]
        ELSE IF rt = <<>> THEN [pc |-> "hung", minDistance |-> r[1], bestRoute |-> <<>>]
        ELSE [pc |-> "returned", minDistance |-> r[1], bestRoute |-> rt]

---------------------------------------------------------------------------
(* The inputs main hands to heldKarp *)

OffDiag(nn) == {p \in (0 .. nn - 1) \X (0 .. nn - 1) : p[1] # p[2]}

\* lines 130-137; the diagonal, which heldKarp never reads, is 0
Matrices(nn) ==
    {[a \in 0 .. nn - 1 |-> [b \in 0 .. nn - 1 |->
          IF a = b THEN 0 ELSE f[<<a, b>>]]] : f \in [OffDiag(nn) -> CostValues]}

\* lines 125-145: main has read n, the matrix and startNode, and calls heldKarp
Init ==
    /\ n \in 0 .. MaxN
    /\ graph \in Matrices(n)
    /\ startNode \in 1 .. n + 1
    /\ pc = "call"
    /\ dp = <<>>
    /\ subset = 0 /\ i = 0 /\ j = 0
    /\ minDistance = INF /\ lastNode = -1
    /\ path = <<>> /\ currentNode = -1
    /\ bestRoute = <<>>
    /\ reads = {}

\* lines 24-29 with the start in range; then the loops of line 32 are entered
Allocate ==
    /\ pc = "call"
    /\ BaseInBounds(n, startNode)
    /\ dp' = BaseCase(NewTable(n), startNode)
    /\ LET p == Seek(n, 0, 0, 0)
       IN  subset' = p[1] /\ i' = p[2] /\ j' = p[3]
    /\ pc' = "forward"
    /\ UNCHANGED <<n, graph, startNode, minDistance, lastNode, path,
                   currentNode, bestRoute, reads>>

\* line 29 with the start out of range: a write outside the table, which
\* is undefined
AllocateUndefined ==
    /\ pc = "call"
    /\ ~BaseInBounds(n, startNode)
    /\ pc' = "undefined"
    /\ UNCHANGED <<n, graph, startNode, dp, subset, i, j, minDistance,
                   lastNode, path, currentNode, bestRoute, reads>>

\* line 42 at (subset, i, j), then on to the next position
ForwardRelax ==
    /\ pc = "forward"
    /\ subset < Pow2(n)
    /\ dp' = Relax(dp, graph, subset, i, j)
    /\ reads' = reads \cup {[at |-> subset, s |-> ReadSubset(subset, i),
                             k |-> j, v |-> dp[ReadSubset(subset, i)][j]]}
    /\ LET p == Seek(n, subset, i, j + 1)
       IN  subset' = p[1] /\ i' = p[2] /\ j' = p[3]
    /\ UNCHANGED <<n, graph, startNode, pc, minDistance, lastNode, path,
                   currentNode, bestRoute>>

\* the loop of line 32 ends; lines 48-50
ForwardExit ==
    /\ pc = "forward"
    /\ subset >= Pow2(n)
    /\ minDistance' = INF /\ lastNode' = -1
    /\ i' = 0 /\ j' = 0 /\ subset' = 0
    /\ pc' = "closing"
    /\ UNCHANGED <<n, graph, startNode, dp, path, currentNode, bestRoute, reads>>

\* lines 50-57, one iteration
ClosingStep ==
    /\ pc = "closing"
    /\ i < n
    /\ LET r == Closing(minDistance, lastNode, dp, graph, n, startNode, i)
       IN  minDistance' = r[1] /\ lastNode' = r[2]
    /\ i' = i + 1
    /\ UNCHANGED <<n, graph, startNode, pc, dp, subset, j, path, currentNode,
                   bestRoute, reads>>

\* the loop of line 50 ends; lines 60-65
ClosingExit ==
    /\ pc = "closing"
    /\ i >= n
    /\ path' = <<startNode>>
    /\ subset' = Pow2(n) - 1
    /\ currentNode' = lastNode
    /\ i' = 0
    /\ pc' = "backtrack"
    /\ UNCHANGED <<n, graph, startNode, dp, j, minDistance, lastNode,
                   bestRoute, reads>>

\* lines 67-78, one iteration of the while loop whose for loop breaks
BacktrackStep ==
    /\ pc = "backtrack"
    /\ currentNode # startNode - 1
    /\ currentNode \in 0 .. n - 1
    /\ FindPrev(dp, graph, n, subset, currentNode) # -1
    /\ path' = Append(path, currentNode + 1)
    /\ currentNode' = FindPrev(dp, graph, n, subset, currentNode)
    /\ subset' = Toggle(subset, currentNode)
    /\ UNCHANGED <<n, graph, startNode, pc, dp, i, j, minDistance, lastNode,
                   bestRoute, reads>>

\* lines 67-78 when no i satisfies line 72: currentNode and subset stay as
\* they are, so the while loop repeats this iteration for ever and only
\* path grows
BacktrackStuck ==
    /\ pc = "backtrack"
    /\ currentNode # startNode - 1
    /\ currentNode \in 0 .. n - 1
    /\ FindPrev(dp, graph, n, subset, currentNode) = -1
    /\ path' = Append(path, currentNode + 1)
    /\ pc' = "hung"
    /\ UNCHANGED <<n, graph, startNode, dp, subset, i, j, minDistance,
                   lastNode, currentNode, bestRoute, reads>>

\* lines 67-72 entered with currentNode = -1: line 68 pushes 0, then
\* 1 << -1, dp[subset][-1] and graph[i][-1] are undefined
BacktrackUndefined ==
    /\ pc = "backtrack"
    /\ currentNode # startNode - 1
    /\ currentNode \notin 0 .. n - 1
    /\ path' = Append(path, currentNode + 1)
    /\ pc' = "undefined"
    /\ UNCHANGED <<n, graph, startNode, dp, subset, i, j, minDistance,
                   lastNode, currentNode, bestRoute, reads>>

\* What an undefined step can lead to: the process dies; or it runs on
\* without ever returning (in the while loop of line 67, line 72 reads
\* garbage that is false for every i, and the loop repeats); or, in that
\* loop, line 72 reads garbage that is true at i = startNode - 1, the loop
\* ends and the call returns what it holds.
UndefinedOutcome ==
    /\ pc = "undefined"
    /\ \E o \in {"crashed", "hung"} \cup (IF path = <<>> THEN {} ELSE {"backtrack"}) :
          /\ pc' = o
          /\ currentNode' = IF o = "backtrack" THEN startNode - 1 ELSE currentNode
    /\ UNCHANGED <<n, graph, startNode, dp, subset, i, j, minDistance,
                   lastNode, path, bestRoute, reads>>

\* lines 80-88
Return ==
    /\ pc = "backtrack"
    /\ currentNode = startNode - 1
    /\ path' = Reverse(Append(path, startNode))
    /\ bestRoute' = Reverse(Append(path, startNode))
    /\ pc' = "returned"
    /\ UNCHANGED <<n, graph, startNode, dp, subset, i, j, minDistance,
                   lastNode, currentNode, reads>>

Next ==
    \/ Allocate
    \/ AllocateUndefined
    \/ ForwardRelax
    \/ ForwardExit
    \/ ClosingStep
    \/ ClosingExit
    \/ BacktrackStep
    \/ BacktrackStuck
    \/ BacktrackUndefined
    \/ UndefinedOutcome
    \/ Return

Spec == Init /\ [][Next]_vars

---------------------------------------------------------------------------
(* Reference definitions the properties are stated with *)

\* The input contract of the solver: n >= 1, no negative entry, start in 1..n
\* (every matrix of the model is square and finite).
ValidInput ==
    /\ n >= 1
    /\ startNode \in 1 .. n
    /\ \A a \in 0 .. n - 1 : \A b \in 0 .. n - 1 : graph[a][b] >= 0

\* The call has ended, or has left defined behaviour.
Terminal == {"returned", "crashed", "hung", "undefined"}

\* A return that no undefined step came before.
CleanReturn == pc = "returned" /\ lastNode \in 0 .. n - 1

\* A sum of costs as <<k, s>>, standing for k * Big + s: exact where the sum
\* itself would leave the range of the model's integers.
Wide(c) == IF c = Big THEN <<1, 0>> ELSE <<0, c>>

WideAdd(v, w) == <<v[1] + w[1], v[2] + w[2]>>

\* |s| stays far below Big, so the order is lexicographic.
WideLeq(v, w) == v[1] < w[1] \/ (v[1] = w[1] /\ v[2] <= w[2])

\* the integer x is the value of w
WideEq(x, w) ==
    \/ w[1] = 0 /\ x = w[2]
    \/ w[1] = 1 /\ x > 0 /\ x - Big = w[2]

\* the value of w is below INF = Big + 1
WideBelowINF(w) == w[1] = 0 \/ (w[1] = 1 /\ w[2] < 1)

RECURSIVE SeqCost(_, _)
\* sum of g[a][b] over the consecutive pairs (a, b) of a sequence of 1-based locations
SeqCost(g, s) ==
    IF Len(s) < 2 THEN <<0, 0>>
    ELSE WideAdd(Wide(g[s[1] - 1][s[2] - 1]), SeqCost(g, Tail(s)))

RECURSIVE Orderings(_)
\* every ordering of a finite set
Orderings(S) ==
    IF S = {} THEN {<<>>}
    ELSE UNION {{<<x>> \o t : t \in Orderings(S \ {x})} : x \in S}

\* every cycle st -> ordering of the others -> st
Tours(nn, st) == {<<st>> \o o \o <<st>> : o \in Orderings((1 .. nn) \ {st})}

WideMin(C) == CHOOSE w \in C : \A v \in C : WideLeq(w, v)

\* brute force over all Hamiltonian cycles
RefMin(g, nn, st) == WideMin({SeqCost(g, t) : t \in Tours(nn, st)})

OptimalTours(g, nn, st) ==
    {t \in Tours(nn, st) : SeqCost(g, t) = RefMin(g, nn, st)}

\* the locations of subset s, 1-based
Members(nn, s) == {k \in 1 .. nn : InSubset(s, k - 1)}

\* the simple paths that start at st, visit exactly the locations of s and end at e
Paths(nn, st, s, e) ==
    IF st \notin Members(nn, s) \/ e \notin Members(nn, s) THEN {}
    ELSE IF e = st THEN (IF Members(nn, s) = {st} THEN {<<st>>} ELSE {})
    ELSE {<<st>> \o o \o <<e>> : o \in Orderings(Members(nn, s) \ {st, e})}

\* a route from st through every other location once and back
IsTour(rt, nn, st) == rt \in Tours(nn, st)

\* relabelings of the locations
Perms(nn) == {f \in [1 .. nn -> 1 .. nn] : \A a, b \in 1 .. nn : f[a] = f[b] => a = b}

\* the matrix with rows and columns permuted by f: entry (f(a), f(b)) is g's (a, b)
Permuted(g, nn, f) ==
    [x \in 0 .. nn - 1 |-> [y \in 0 .. nn - 1 |->
        LET a == CHOOSE a \in 1 .. nn : f[a] = x + 1
            b == CHOOSE b \in 1 .. nn : f[b] = y + 1
        IN  g[a - 1][b - 1]]]

Relabel(rt, f) == [k \in 1 .. Len(rt) |-> f[rt[k]]]

---------------------------------------------------------------------------
(* Properties *)

\* C1: for every n x n matrix of non-negative finite costs with n >= 2 and
\* every start in 1..n, the call returns, and the cost it returns is the
\* minimum over all Hamiltonian cycles through start.
C1_ReturnsOptimalCost ==
    (ValidInput /\ n >= 2 /\ pc \in Terminal) =>
        (pc = "returned" /\ WideEq(minDistance, RefMin(graph, n, startNode)))

\* C2: for every valid input the call returns a route of length n + 1 that
\* starts and ends at start and whose interior is a permutation of the other
\* n - 1 locations.
C2_RouteIsTour ==
    (ValidInput /\ pc \in Terminal) =>
        /\ pc = "returned"
        /\ Len(bestRoute) = n + 1
        /\ bestRoute[1] = startNode /\ bestRoute[n + 1] = startNode
        /\ {bestRoute[k] : k \in 2 .. n} = (1 .. n) \ {startNode}

\* C3: for every valid input the call returns, the sum of graph[a][b] over
\* the consecutive pairs of the returned route equals the returned cost, and
\* that cost is dp[full][last] + graph[last][start] for the chosen last.
C3_RouteAchievesCost ==
    (ValidInput /\ pc \in Terminal) =>
        /\ pc = "returned"
        /\ lastNode \in 0 .. n - 1
        /\ WideEq(minDistance, SeqCost(graph, bestRoute))
        /\ PlusEq(dp[Pow2(n) - 1][lastNode], graph[lastNode][startNode - 1],
                  minDistance)

\* C4: with n = 1 and start = 1 the call returns the route [1, 1] and cost 0,
\* and never runs a backtracking step on a location that does not exist.
C4_SingleLocation ==
    (n = 1 /\ startNode = 1) =>
        /\ pc \in Terminal => (pc = "returned" /\ bestRoute = <<1, 1>> /\ minDistance = 0)
        /\ (pc = "backtrack" /\ currentNode # startNode - 1) => currentNode \in 0 .. n - 1

\* C5: a call with an invalid input (n = 0, start = n + 1, a negative entry)
\* ends in the error outcome InvalidInput, with no DP cell written or read
\* and no route produced.
C5_InvalidInputRejected ==
    ~ValidInput =>
        /\ pc \in {"call", "invalid_input"}
        /\ dp = <<>> /\ reads = {}
        /\ path = <<>> /\ bestRoute = <<>>

\* C6: on a valid input, if after the forward pass no location closes the
\* cycle below the sentinel, the call ends in NoTourFound: backtracking
\* never starts with lastNode = -1 and INF is never returned as the cost.
C6_NoTourReported ==
    ValidInput =>
        /\ pc = "backtrack" => lastNode # -1
        /\ pc = "returned" => minDistance # INF
        /\ (pc \in Terminal /\ lastNode = -1) => pc = "no_tour_found"

C8_BacktrackingCompletes ==
    ValidInput =>
        /\ (pc = "backtrack" /\ currentNode # startNode - 1) =>
              /\ currentNode \in 0 .. n - 1
              /\ InSubset(subset, currentNode)
              /\ FindPrev(dp, graph, n, subset, currentNode) # -1
        /\ pc = "backtrack" => Len(path) <= n
        /\ pc \in Terminal => pc = "returned"

\* the rows of dp the outer loop of line 32 has moved past
Passed == IF pc = "forward" THEN 0 .. subset - 1 ELSE DOMAIN dp

\* C9: every relaxation of the forward pass reads a cell of a numerically
\* smaller subset than the one it relaxes, the value it read is never
\* changed afterwards, and no row the outer loop has moved past is written
\* again.
C9_ForwardPassOrder ==
    /\ [](\A r \in reads : r.s < r.at /\ dp[r.s][r.k] = r.v)
    /\ [][pc # "call" => \A s \in Passed : dp'[s] = dp[s]]_vars

\* C9's case: the forward pass has ended after relaxations that read finite
\* cells and wrote finite values.
C9_Witness ==
    /\ pc = "closing" /\ n = 3
    /\ \E r \in reads : r.v < INF /\ r.s # Pow2(startNode - 1)
    /\ \E a \in 0 .. n - 1 : dp[Pow2(n) - 1][a] < INF

\* C10: after the forward pass on a valid input, dp[S][i] is below INF
\* exactly when a simple path from start through exactly S to i exists, it
\* is then the minimum cost of such a path, every other cell is INF, and
\* dp[{start}][start] = 0.
C10_TableMeaning ==
    (ValidInput /\ pc = "closing") =>
        /\ dp[Pow2(startNode - 1)][startNode - 1] = 0
        /\ \A s \in 0 .. Pow2(n) - 1 : \A a \in 0 .. n - 1 :
              LET P == Paths(n, startNode, s, a + 1)
              IN  IF P = {} THEN dp[s][a] = INF
                  ELSE /\ dp[s][a] < INF
                       /\ WideEq(dp[s][a], WideMin({SeqCost(graph, q) : q \in P}))

=============================================================================
